---- MODULE Spec2Model ----
(***************************************************************************)
(* Template matching of src/tpl/tpl.cpp: a needle image is searched in a   *)
(* haystack image.  Integral images give a sum per window, a deque keeps   *)
(* candidate windows ordered by the difference of sums, and a brute-force  *)
(* sum of absolute differences over the candidates gives the result.       *)
(*                                                                         *)
(* An image (cv::Mat) is a record [cols, rows, px], px a function from     *)
(* <<column, row>> to the element.  A pixel (Vec3b) is a triple of bytes.  *)
(* The float `result` is kept as the exact fraction [num, den]; within the *)
(* bounds below every quantity is far under 2^24, where float arithmetic   *)
(* on these integers is exact enough to order and compare them.            *)
(***************************************************************************)
EXTENDS Integers, Sequences, FiniteSets, TLC

VARIABLES haystack, needle, haystack_sum, needle_sum, ns, deq, x, y,
          max, result, min, rx, ry, d, shown, pc

vars == <<haystack, needle, haystack_sum, needle_sum, ns, deq, x, y,
          max, result, min, rx, ry, d, shown, pc>>

(***************************************************************************)
(* Bounds of the model.                                                    *)
(***************************************************************************)
\* Largest number of pixels of an exhaustively enumerated haystack.
MaxArea == 9
\* Largest number of pixels of an exhaustively enumerated needle.
MaxNeedleArea == 2
\* Width of the two-row strip haystacks, wide enough to overflow the deque.
StripW == 53

(***************************************************************************)
(* Program constants.                                                      *)
(***************************************************************************)
K == 50
nc == 3
byte == 255
INT_MAX == 2147483647

Abs(v) == IF v < 0 THEN -v ELSE v

(***************************************************************************)
(* Images.                                                                 *)
(***************************************************************************)
Black == <<0, 0, 0>>
White == <<255, 255, 255>>
PixelVals == {Black, White}

Points(w, h) == (0 .. w - 1) \X (0 .. h - 1)

\* A default-constructed Mat, and what imread returns when it fails.
EmptyMat == [cols |-> 0, rows |-> 0, px |-> <<>>]

\* Mat::empty()
Empty(m) == m.cols = 0 \/ m.rows = 0

\* m.at<Vec3b>(Point(px, py)) and, for the integral image, m.at<int>(row, col)
\* and m.at<int>(Point(col, row)).
At(m, col, row) == m.px[<<col, row>>]

ImagesOf(w, h) ==
    {[cols |-> w, rows |-> h, px |-> f] : f \in [Points(w, h) -> PixelVals]}

\* A strip: two rows, StripW columns.  Row 0 holds <<0, g(col), 0>> and row 1
\* holds <<f(col), 0, 0>> for the pattern's f and g.
StripPatterns == {"desc", "asc", "pairs", "saw"}

StripRow1(pat, col) ==
    CASE pat = "desc"  -> StripW - col
      [] pat = "asc"   -> col
      [] pat = "pairs" -> (StripW - col) \div 2
      [] pat = "saw"   -> (col * 7) % 11

StripRow0(pat, col) == (col * 5) % 7

Strip(pat) ==
    [cols |-> StripW, rows |-> 2,
     px |-> [p \in Points(StripW, 2) |->
               IF p[2] = 0 THEN <<0, StripRow0(pat, p[1]), 0>>
                           ELSE <<StripRow1(pat, p[1]), 0, 0>>]]

StripNeedles ==
    {[cols |-> 1, rows |-> 1, px |-> [p \in Points(1, 1) |-> v]] :
        v \in {Black, <<3, 0, 0>>, <<20, 0, 0>>}}

\* The sizes of the enumerated haystacks: at most MaxArea pixels; a haystack
\* one pixel wide or high is never scanned, and is enumerated only up to the
\* size of the needles.
HaystackDims ==
    {wh \in (1 .. MaxArea) \X (1 .. MaxArea) :
        /\ wh[1] * wh[2] <= MaxArea
        /\ (wh[1] >= 2 /\ wh[2] >= 2) \/ wh[1] * wh[2] <= MaxNeedleArea}

NeedleDims ==
    {wh \in (1 .. MaxNeedleArea) \X (1 .. MaxNeedleArea) :
        wh[1] * wh[2] <= MaxNeedleArea}

\* The inputs: every small haystack with every small needle, either of them
\* possibly unreadable, and every strip with every strip needle.
Inputs ==
    LET hs == UNION {ImagesOf(wh[1], wh[2]) : wh \in HaystackDims}
        nd == UNION {ImagesOf(wh[1], wh[2]) : wh \in NeedleDims}
    IN  ((hs \cup {EmptyMat}) \X (nd \cup {EmptyMat}))
        \cup ({Strip(pat) : pat \in StripPatterns} \X StripNeedles)

(***************************************************************************)
(* tpl::integral                                                           *)
(***************************************************************************)
PixelSum(c) == c[1] + c[2] + c[3]

\* The running sum s of row `row` after column `col` has been added.
RECURSIVE RowSum(_, _, _)
RowSum(src, col, row) ==
    PixelSum(At(src, col, row))
        + (IF col > 0 THEN RowSum(src, col - 1, row) ELSE 0)

\* sum.at<int>(Point(col, row)) = s + a, a the cell above or 0.
RECURSIVE IntegralCell(_, _, _)
IntegralCell(src, col, row) ==
    RowSum(src, col, row)
        + (IF row > 0 THEN IntegralCell(src, col, row - 1) ELSE 0)

integral(src) ==
    [cols |-> src.cols, rows |-> src.rows,
     px |-> [p \in Points(src.cols, src.rows) |-> IntegralCell(src, p[1], p[2])]]

(***************************************************************************)
(* The candidate scan.                                                     *)
(***************************************************************************)
\* The mutation that ends the outer loop one row early.
ScanRowsShort(hsum, nsum) == hsum.rows - nsum.rows - 1

\* The loop bounds of the scan.
ScanRows(hsum, nsum) == hsum.rows - nsum.rows
ScanCols(hsum, nsum) == hsum.cols - nsum.cols

\* int s = at(y, x) + at(y + rows, x + cols) - at(y, x + cols) - at(y + rows, x)
WindowSum(hsum, col, row, nrows, ncols) ==
    At(hsum, col, row) + At(hsum, col + ncols, row + nrows)
        - At(hsum, col + ncols, row) - At(hsum, col, row + nrows)

item(diff, col, row, sum) == [diff |-> diff, x |-> col, y |-> row, sum |-> sum]

InsertAt(dq, i, itm) == SubSeq(dq, 1, i - 1) \o <<itm>> \o SubSeq(dq, i, Len(dq))

\* The mutation `d <= it->diff`.
InsertLeq(dq, itm) ==
    IF Len(dq) > 0
    THEN LET before == {i \in 1 .. Len(dq) : itm.diff <= dq[i].diff}
         IN  IF before = {} THEN dq
             ELSE InsertAt(dq, CHOOSE i \in before : \A j \in before : i <= j, itm)
    ELSE <<itm>>

\* The ordered insertion: before the first entry of larger diff; an item that
\* no entry exceeds is not inserted; an empty deque takes the item.
Insert(dq, itm) ==
    IF Len(dq) > 0
    THEN LET before == {i \in 1 .. Len(dq) : itm.diff < dq[i].diff}
         IN  IF before = {} THEN dq
             ELSE InsertAt(dq, CHOOSE i \in before : \A j \in before : i <= j, itm)
    ELSE <<itm>>

\* The mutation `deq.size() > 51`.
EvictLate(dq) == IF Len(dq) > K + 1 THEN SubSeq(dq, 1, Len(dq) - 1) ELSE dq

\* The mutation `deq.pop_front()`.
EvictFront(dq) == IF Len(dq) > K THEN SubSeq(dq, 2, Len(dq)) ELSE dq

\* if (deq.size() > 50) deq.pop_back();
Evict(dq) == IF Len(dq) > K THEN SubSeq(dq, 1, Len(dq) - 1) ELSE dq

(***************************************************************************)
(* The result.                                                             *)
(***************************************************************************)
\* The mutation that forgets the channels.
MaxSADOneChannel(n) == n.rows * n.cols * byte

\* const int max = needle.rows * needle.cols * byte * nc
MaxSAD(n) == n.rows * n.cols * byte * nc

One == [num |-> 1, den |-> 1]
Zero == [num |-> 0, den |-> 1]
IsOne(r) == r.num = r.den
IsZero(r) == r.num = 0

\* Whether the first candidate is a perfect result.
Perfect(dq) == dq # <<>> /\ dq[1].diff = 0

\* The brute-force sum over the needle's pixels and channels.
ChannelSAD(c1, c2) == Abs(c1[1] - c2[1]) + Abs(c1[2] - c2[2]) + Abs(c1[3] - c2[3])

RECURSIVE SumOver(_, _, _, _, _)
SumOver(h, n, col, row, todo) ==
    IF todo = {} THEN 0
    ELSE LET p == CHOOSE q \in todo : TRUE
         IN  ChannelSAD(At(h, col + p[1], row + p[2]), At(n, p[1], p[2]))
                 + SumOver(h, n, col, row, todo \ {p})

SAD(h, n, col, row) == SumOver(h, n, col, row, Points(n.cols, n.rows))

\* The mutation `s <= min`.
BruteStepLeq(st, s, cand, mx) ==
    IF s <= st.min
    THEN [min |-> s, rx |-> cand.x, ry |-> cand.y,
          result |-> [num |-> mx - s, den |-> mx]]
    ELSE st

\* if (s < min) { min = s; rx = ...; ry = ...; result = 1 - float(min) / max; }
BruteStep(st, s, cand, mx) ==
    IF s < st.min
    THEN [min |-> s, rx |-> cand.x, ry |-> cand.y,
          result |-> [num |-> mx - s, den |-> mx]]
    ELSE st

\* The whole brute-force loop from candidate i on, stopping after a sum of 0.
RECURSIVE BruteFrom(_, _, _, _, _, _)
BruteFrom(h, n, dq, i, st, mx) ==
    IF i > Len(dq) THEN st
    ELSE LET s == SAD(h, n, dq[i].x, dq[i].y)
             nx == BruteStep(st, s, dq[i], mx)
         IN  IF s = 0 THEN nx ELSE BruteFrom(h, n, dq, i + 1, nx, mx)

(***************************************************************************)
(* The program.                                                            *)
(***************************************************************************)
Init ==
    /\ \E in \in Inputs : haystack = in[1] /\ needle = in[2]
    /\ haystack_sum = EmptyMat
    /\ needle_sum = EmptyMat
    /\ ns = 0
    /\ deq = <<>>
    /\ x = 0
    /\ y = 0
    /\ max = 0
    /\ result = Zero
    /\ min = 0
    /\ rx = 0
    /\ ry = 0
    /\ d = 0
    /\ shown = FALSE
    /\ pc = "load"

\* if (haystack.empty() || needle.empty()) return 1;
LoadFail ==
    /\ pc = "load"
    /\ Empty(haystack) \/ Empty(needle)
    /\ pc' = "failed"
    /\ UNCHANGED <<haystack, needle, haystack_sum, needle_sum, ns, deq, x, y,
                   max, result, min, rx, ry, d, shown>>

\* Both integral images and the needle's total.
Integrals ==
    /\ pc = "load"
    /\ ~Empty(haystack) /\ ~Empty(needle)
    /\ haystack_sum' = integral(haystack)
    /\ needle_sum' = integral(needle)
    /\ ns' = At(needle_sum', needle_sum'.cols - 1, needle_sum'.rows - 1)
    /\ x' = 0
    /\ y' = 0
    /\ pc' = "scan"
    /\ UNCHANGED <<haystack, needle, deq, max, result, min, rx, ry, d, shown>>

\* One pass of the inner loop's body.
ScanWindow ==
    /\ pc = "scan"
    /\ y < ScanRows(haystack_sum, needle_sum)
    /\ x < ScanCols(haystack_sum, needle_sum)
    /\ LET s == WindowSum(haystack_sum, x, y, needle_sum.rows, needle_sum.cols)
           itm == item(Abs(s - ns), x, y, s)
       IN  deq' = Evict(Insert(deq, itm))
    /\ x' = x + 1
    /\ UNCHANGED <<haystack, needle, haystack_sum, needle_sum, ns, y,
                   max, result, min, rx, ry, d, shown, pc>>

\* The inner loop ends and the outer loop steps.
ScanNextRow ==
    /\ pc = "scan"
    /\ y < ScanRows(haystack_sum, needle_sum)
    /\ ~(x < ScanCols(haystack_sum, needle_sum))
    /\ x' = 0
    /\ y' = y + 1
    /\ UNCHANGED <<haystack, needle, haystack_sum, needle_sum, ns, deq,
                   max, result, min, rx, ry, d, shown, pc>>

\* The outer loop ends; max, result, min, rx and ry are initialised.
ScanEnd ==
    /\ pc = "scan"
    /\ ~(y < ScanRows(haystack_sum, needle_sum))
    /\ max' = MaxSAD(needle)
    /\ result' = IF Perfect(deq) THEN One ELSE Zero
    /\ min' = INT_MAX
    /\ rx' = IF Perfect(deq) THEN deq[1].x ELSE -1
    /\ ry' = IF Perfect(deq) THEN deq[1].y ELSE -1
    /\ d' = 0
    /\ pc' = IF IsOne(result') THEN "report" ELSE "brute"
    /\ UNCHANGED <<haystack, needle, haystack_sum, needle_sum, ns, deq, x, y, shown>>

\* One candidate of the brute-force loop.
BruteCandidate ==
    /\ pc = "brute"
    /\ d < Len(deq)
    /\ LET s == SAD(haystack, needle, deq[d + 1].x, deq[d + 1].y)
           st == BruteStep([min |-> min, rx |-> rx, ry |-> ry, result |-> result],
                           s, deq[d + 1], max)
       IN  /\ min' = st.min
           /\ rx' = st.rx
           /\ ry' = st.ry
           /\ result' = st.result
           /\ IF s = 0
              THEN pc' = "report" /\ d' = d
              ELSE pc' = pc /\ d' = d + 1
    /\ UNCHANGED <<haystack, needle, haystack_sum, needle_sum, ns, deq, x, y,
                   max, shown>>

\* The brute-force loop runs out of candidates.
BruteEnd ==
    /\ pc = "brute"
    /\ ~(d < Len(deq))
    /\ pc' = "report"
    /\ UNCHANGED <<haystack, needle, haystack_sum, needle_sum, ns, deq, x, y,
                   max, result, min, rx, ry, d, shown>>

\* The result is printed, and the location when the result is not 0.
Report ==
    /\ pc = "report"
    /\ shown' = ~IsZero(result)
    /\ pc' = "done"
    /\ UNCHANGED <<haystack, needle, haystack_sum, needle_sum, ns, deq, x, y,
                   max, result, min, rx, ry, d>>

Next ==
    \/ LoadFail
    \/ Integrals
    \/ ScanWindow
    \/ ScanNextRow
    \/ ScanEnd
    \/ BruteCandidate
    \/ BruteEnd
    \/ Report

Spec == Init /\ [][Next]_vars

(***************************************************************************)
(* Vocabulary of the properties.                                           *)
(***************************************************************************)
AfterScan == pc \in {"brute", "report", "done"}

\* The window positions the scan visits, as <<column, row>>.
ScanPositions ==
    (0 .. ScanCols(haystack_sum, needle_sum) - 1)
        \X (0 .. ScanRows(haystack_sum, needle_sum) - 1)

\* Row-major scan order: y outer, x inner.
ScannedBefore(c1, r1, c2, r2) == r1 < r2 \/ (r1 = r2 /\ c1 < c2)

\* The diff the scan computes for the window at p.
DiffAt(p) ==
    Abs(WindowSum(haystack_sum, p[1], p[2], needle_sum.rows, needle_sum.cols) - ns)

\* The sum of all channels of the pixels (col + i, row + j), (i, j) in todo.
RECURSIVE DirectSum(_, _, _, _)
DirectSum(h, col, row, todo) ==
    IF todo = {} THEN 0
    ELSE LET p == CHOOSE q \in todo : TRUE
         IN  PixelSum(At(h, col + p[1], row + p[2]))
                 + DirectSum(h, col, row, todo \ {p})

\* The places of the haystack that hold the needle's pixels verbatim, among
\* the window positions the scan visits.
Occurrences ==
    {p \in (0 .. haystack.cols - needle.cols - 1)
              \X (0 .. haystack.rows - needle.rows - 1) :
        \A q \in Points(needle.cols, needle.rows) :
            At(haystack, p[1] + q[1], p[2] + q[2]) = At(needle, q[1], q[2])}

Oversized == needle.cols >= haystack.cols \/ needle.rows >= haystack.rows

MinOf(a, b) == IF a < b THEN a ELSE b

(***************************************************************************)
(* C1.  Perfect-match identity: when the needle's pixels stand verbatim at *)
(* exactly one place (x0, y0) of the haystack, a place the scan visits,    *)
(* the finished match reports confidence 1 and the location (x0, y0).      *)
(***************************************************************************)
PerfectMatchIdentity ==
    (pc = "done" /\ Cardinality(Occurrences) = 1)
        => \A p \in Occurrences : IsOne(result) /\ rx = p[1] /\ ry = p[2]

(***************************************************************************)
(* C2.  Window-sum equivalence: the sum a candidate records for the window *)
(* at (x, y), taken from four integral-image cells, equals the sum of all  *)
(* channels of the haystack pixels in [x, x+nw) x [y, y+nh).               *)
(***************************************************************************)
WindowSumEquivalence ==
    \A i \in 1 .. Len(deq) :
        deq[i].sum = DirectSum(haystack, deq[i].x, deq[i].y,
                               Points(needle.cols, needle.rows))

(***************************************************************************)
(* C3.  Non-empty images never fail to load, and the finished match has    *)
(* the location (-1, -1) exactly when the needle is at least as wide or at *)
(* least as high as the haystack; then the deque is empty, the brute-force *)
(* loop has done nothing and the confidence is 0.                          *)
(***************************************************************************)
NotFoundIffOversized ==
    /\ pc = "failed" => (Empty(haystack) \/ Empty(needle))
    /\ pc = "done" =>
          /\ (rx = -1 /\ ry = -1) <=> Oversized
          /\ (rx = -1 \/ ry = -1) => (rx = -1 /\ ry = -1)
          /\ Oversized =>
                (deq = <<>> /\ d = 0 /\ min = INT_MAX /\ IsZero(result))

OversizedNotFound ==
    /\ pc = "done"
    /\ needle.cols > haystack.cols
    /\ needle.rows < haystack.rows
    /\ rx = -1 /\ ry = -1

(***************************************************************************)
(* C4.  Bounded candidate list: in every state the deque has at most       *)
(* K = 50 entries and is sorted ascending by diff.                         *)
(***************************************************************************)
BoundedSortedDeque ==
    /\ Len(deq) <= K
    /\ \A i \in 1 .. Len(deq) - 1 : deq[i].diff <= deq[i + 1].diff

\* The deque is full and the first scanned window, which was inserted, has
\* been evicted from it.
DequeHasEvicted ==
    /\ pc = "scan"
    /\ Len(deq) = K
    /\ \A i \in 1 .. Len(deq) : ~(deq[i].x = 0 /\ deq[i].y = 0)
    /\ deq[1].diff < deq[K].diff

(***************************************************************************)
(* C5.  Confidence bounds: once the scan has left a non-empty deque, the   *)
(* result lies in [0, 1]; on the brute-force path the finished match has   *)
(* 0 <= min <= needle width * needle height * 255 * 3.                     *)
(***************************************************************************)
ConfidenceBounds ==
    (AfterScan /\ deq # <<>>) =>
        /\ result.den > 0
        /\ 0 <= result.num /\ result.num <= result.den
        /\ (pc = "done" /\ ~Perfect(deq)) =>
              (0 <= min /\ min <= needle.cols * needle.rows * 255 * 3)

\* The brute-force path ends with the largest possible sum: confidence 0.
ConfidenceZeroFound ==
    /\ pc = "done"
    /\ deq # <<>>
    /\ ~Perfect(deq)
    /\ min = needle.cols * needle.rows * 255 * 3
    /\ IsZero(result)

(***************************************************************************)
(* C6.  After a scan of N positions the deque holds exactly min(K, N)      *)
(* entries, and no scanned position left out of it has a smaller diff      *)
(* than an entry.                                                          *)
(***************************************************************************)
RankerKeepsLowest ==
    AfterScan =>
        /\ Len(deq) = MinOf(K, Cardinality(ScanPositions))
        /\ \A p \in ScanPositions :
              (\A i \in 1 .. Len(deq) : <<deq[i].x, deq[i].y>> # p)
                  => \A i \in 1 .. Len(deq) : deq[i].diff <= DiffAt(p)

(***************************************************************************)
(* C7.  The perfect-match shortcut agrees with brute force: when the       *)
(* first entry has diff 0, the brute-force loop over the same deque would  *)
(* find the minimum 0, confidence 1 and the reported location.             *)
(***************************************************************************)
ShortcutAgreesWithBrute ==
    (pc = "done" /\ Perfect(deq)) =>
        LET st == BruteFrom(haystack, needle, deq, 1,
                            [min |-> INT_MAX, rx |-> -1, ry |-> -1, result |-> Zero],
                            max)
        IN  st.min = 0 /\ IsOne(st.result) /\ st.rx = rx /\ st.ry = ry

(***************************************************************************)
(* C8.  On the brute-force path the finished match reports the earliest    *)
(* entry of the deque whose sum of absolute differences is minimal over    *)
(* the whole deque, min is that sum and the confidence is 1 - min / max.   *)
(***************************************************************************)
BruteFindsEarliestMinimum ==
    (pc = "done" /\ deq # <<>> /\ ~Perfect(deq)) =>
        \E i \in 1 .. Len(deq) :
            LET sad(j) == SAD(haystack, needle, deq[j].x, deq[j].y)
                mx == needle.cols * needle.rows * 255 * 3
            IN  /\ \A j \in 1 .. Len(deq) : sad(i) <= sad(j)
                /\ \A j \in 1 .. i - 1 : sad(i) < sad(j)
                /\ min = sad(i)
                /\ rx = deq[i].x /\ ry = deq[i].y
                /\ result.num * mx = (mx - min) * result.den

\* The loop stopped at a sum of 0 that was neither the first nor the last
\* candidate.
BruteStoppedEarly ==
    /\ pc = "done"
    /\ deq # <<>>
    /\ ~Perfect(deq)
    /\ min = 0
    /\ d >= 1
    /\ d + 1 < Len(deq)

(***************************************************************************)
(* C9.  Stable tie-break: in every state, two entries of the deque with    *)
(* equal diff stand in the order in which they were scanned.               *)
(***************************************************************************)
StableTieBreak ==
    \A i \in 1 .. Len(deq) : \A j \in i + 1 .. Len(deq) :
        deq[i].diff = deq[j].diff
            => ScannedBefore(deq[i].x, deq[i].y, deq[j].x, deq[j].y)

DequeHasTie ==
    \E i \in 1 .. Len(deq) : \E j \in i + 1 .. Len(deq) :
        deq[i].diff = deq[j].diff

(***************************************************************************)
(* C10.  After a scan over a non-empty range the first entry of the deque  *)
(* is the earliest scanned position among those of the smallest diff; when *)
(* every window has diff 0 the finished match is confidence 1 at (0, 0).   *)
(***************************************************************************)
FirstIsEarliestMinimum ==
    (AfterScan /\ ScanPositions # {}) =>
        /\ deq # <<>>
        /\ <<deq[1].x, deq[1].y>> \in ScanPositions
        /\ deq[1].diff = DiffAt(<<deq[1].x, deq[1].y>>)
        /\ \A p \in ScanPositions :
              \/ deq[1].diff < DiffAt(p)
              \/ p = <<deq[1].x, deq[1].y>>
              \/ /\ deq[1].diff = DiffAt(p)
                 /\ ScannedBefore(deq[1].x, deq[1].y, p[1], p[2])
        /\ (pc = "done" /\ \A p \in ScanPositions : DiffAt(p) = 0)
              => (IsOne(result) /\ rx = 0 /\ ry = 0)

\* Several scanned positions share the smallest diff, the first scanned
\* position is not one of them, and more than one entry is kept.
EarliestMinimumLeads ==
    /\ pc = "done"
    /\ Len(deq) >= 2
    /\ <<deq[1].x, deq[1].y>> # <<0, 0>>
    /\ \E p \in ScanPositions :
          p # <<deq[1].x, deq[1].y>> /\ DiffAt(p) = deq[1].diff
====
